---- MODULE Spec2Model ----
(***************************************************************************)
(* Model of the Legal Phrase Importance Scorer of backend/app.py:          *)
(* LegalPhraseScorer (_compile_patterns, score_phrase), get_risk_category, *)
(* the call site that scores one clause, and the life of a document job    *)
(* (upload_document, analyze_document_task).                               *)
(*                                                                         *)
(* Text.  A Python str is modelled as a sequence of atoms.  An atom is a   *)
(* maximal run of word characters (a word or a number), one whitespace     *)
(* character, or one punctuation character.  Two word atoms next to each   *)
(* other stand for one longer word ("pay" "ment" is "payment").            *)
(*                                                                         *)
(* Numbers.  Scores are fixed-point integers in units of 1/10000, so 0.65  *)
(* is 6500 and 1.0 is One.  Float representation error is not modelled.    *)
(***************************************************************************)
EXTENDS Integers, Sequences, FiniteSets, TLC

VARIABLES
    library,                \* the attributes of phrase_scorer set by _compile_patterns
    document_analysis_jobs, \* the in-memory job table
    issued,                 \* the document ids uuid.uuid4() has handed out
    task_pc,                \* per document id: position of its analyze_document_task
    pc,                     \* per thread: position in the call of score_phrase
    phrase,                 \* per thread: the argument of score_phrase
    g,                      \* per thread: index of the pattern group being searched
    matched_scores,         \* per thread: local list of (score, category)
    is_formality,           \* per thread: local flag
    base_score,             \* per thread: local
    context_bonus,          \* per thread: local
    score,                  \* per thread: the caller's local holding the returned value
    category                \* per thread: the caller's local holding the risk category

vars == <<library, document_analysis_jobs, issued, task_pc, pc, phrase, g,
          matched_scores, is_formality, base_score, context_bonus, score, category>>

jobstate == <<document_analysis_jobs, issued, task_pc>>

scorerstate == <<pc, phrase, g, matched_scores, is_formality, base_score,
                 context_bonus, score, category>>

locals == <<g, matched_scores, is_formality, base_score, context_bonus>>

----------------------------------------------------------------------------
(* Bounds of the model *)

\* number of executor threads that call score_phrase concurrently
NumThreads == 2

\* largest number of vocabulary fragments in a generated text
MaxFrags == 2

\* how far the score grid of the categorizer runs below 0.0 and above 1.0
GridMargin == 300

\* number of document ids uuid.uuid4() can hand out
MaxDocs == 3

Threads == 1..NumThreads

DocIds == 1..MaxDocs

----------------------------------------------------------------------------
(* Fixed-point values *)

\* 1.0
One == 10000

\* 0.70 and 0.40, the thresholds of get_risk_category
RedThreshold == 7000
YellowThreshold == 4000

----------------------------------------------------------------------------
(* Characters: the classes Python's re uses *)

\* \s
IsSpace(a) == a \in {" ", "\n"}

IsPunct(a) == a \in {",", ".", ";", "\"", "$"}

\* \w+ : everything that is neither whitespace nor punctuation
IsWord(a) == ~IsSpace(a) /\ ~IsPunct(a)

\* \d+
IsDigits(a) == a \in {"30", "500"}

\* [A-Z]{2,} (case-sensitive)
IsCaps(a) == a \in {"TIME", "IS", "OF", "THE", "ESSENCE", "PAY"}

\* str.lower() of the atoms that have upper-case letters
LowerTable ==
    "In" :> "in" @@ "This" :> "this" @@ "The" :> "the"
    @@ "Agreement" :> "agreement" @@ "India" :> "india"
    @@ "Indian" :> "indian" @@ "Payment" :> "payment"
    @@ "TIME" :> "time" @@ "IS" :> "is" @@ "OF" :> "of"
    @@ "THE" :> "the" @@ "ESSENCE" :> "essence" @@ "PAY" :> "pay"

\* case folding of re.IGNORECASE
Lower(a) == IF a \in DOMAIN LowerTable THEN LowerTable[a] ELSE a

----------------------------------------------------------------------------
(* Regular expressions.  A compiled pattern \b(a1|a2|...)<tail> is a record *)
(* [alts, endb]: alts is the set of alternatives, each a sequence of        *)
(* elements; endb says whether the pattern ends in \b.  An element is a     *)
(* lower-case word, one literal space, \d+ or \s+.                          *)

RECURSIVE Words(_)
\* the words of a phrase separated by single literal spaces
Words(ws) ==
    IF Len(ws) <= 1 THEN ws
    ELSE <<ws[1], " ">> \o Words(Tail(ws))

ElemMatches(e, a) ==
    IF e = "\\d+" THEN IsDigits(a)
    ELSE IF e = " " THEN a = " "
    ELSE IsWord(a) /\ Lower(a) = e

RECURSIVE Ends(_, _, _)
\* the positions at which a match of alt that starts at atom i can end
Ends(alt, text, i) ==
    IF alt = <<>> THEN {i}
    ELSE IF i > Len(text) THEN {}
    ELSE IF Head(alt) = "\\s+"
         THEN IF IsSpace(text[i])
              THEN Ends(Tail(alt), text, i + 1) \cup Ends(alt, text, i + 1)
              ELSE {}
         ELSE IF ElemMatches(Head(alt), text[i])
              THEN Ends(Tail(alt), text, i + 1)
              ELSE {}

\* \b before position i, where the atom at i is a word
BoundaryBefore(text, i) == i = 1 \/ ~IsWord(text[i - 1])

\* \b after a word that ends just before position j
BoundaryAfter(text, j) == j > Len(text) \/ ~IsWord(text[j])

\* a search with a compiled case-insensitive pattern finds a match
Search(rx, text) ==
    \E alt \in rx.alts : \E i \in 1..Len(text) :
        /\ BoundaryBefore(text, i)
        /\ \E j \in Ends(alt, text, i) : rx.endb => BoundaryAfter(text, j)

\* a search with \b[A-Z]{2,}\b|\"[^\"]*\" finds a match
EmphasisSearch(text) ==
    \/ \E i \in 1..Len(text) :
            IsCaps(text[i]) /\ BoundaryBefore(text, i) /\ BoundaryAfter(text, i + 1)
    \/ \E i \in 1..Len(text) : \E j \in (i + 1)..Len(text) :
            text[i] = "\"" /\ text[j] = "\""

----------------------------------------------------------------------------
(* re.compile: the alternatives of each pattern text of _compile_patterns.  *)
(* days? and immediate(?:ly)? are written out as two alternatives each.     *)

Alternation(alts, endb) == [alts |-> alts, endb |-> endb]

Compile(src) ==
    CASE src = "\\b(shall|must|required to|obligated to|bound to)\\b" ->
           Alternation({<<"shall">>, <<"must">>, Words(<<"required", "to">>),
                        Words(<<"obligated", "to">>), Words(<<"bound", "to">>)}, TRUE)
      [] src = "\\b(has the right to|entitled to|may demand|can require)\\b" ->
           Alternation({Words(<<"has", "the", "right", "to">>),
                        Words(<<"entitled", "to">>), Words(<<"may", "demand">>),
                        Words(<<"can", "require">>)}, TRUE)
      [] src = "\\b(responsible for|liable for|accountable for)\\b" ->
           Alternation({Words(<<"responsible", "for">>), Words(<<"liable", "for">>),
                        Words(<<"accountable", "for">>)}, TRUE)
      [] src = "\\b(payment shall be made|pay|due on|due within)\\b" ->
           Alternation({Words(<<"payment", "shall", "be", "made">>), <<"pay">>,
                        Words(<<"due", "on">>), Words(<<"due", "within">>)}, TRUE)
      [] src = "\\b(interest|late payment penalty|overdue)\\b" ->
           Alternation({<<"interest">>, Words(<<"late", "payment", "penalty">>),
                        <<"overdue">>}, TRUE)
      [] src = "\\b(advance payment|security deposit|earnest money)\\b" ->
           Alternation({Words(<<"advance", "payment">>),
                        Words(<<"security", "deposit">>),
                        Words(<<"earnest", "money">>)}, TRUE)
      [] src = "\\b(in case of default|breach of contract|violation of)\\b" ->
           Alternation({Words(<<"in", "case", "of", "default">>),
                        Words(<<"breach", "of", "contract">>),
                        Words(<<"violation", "of">>)}, TRUE)
      [] src = "\\b(liable to pay damages|legal action|court proceedings)\\b" ->
           Alternation({Words(<<"liable", "to", "pay", "damages">>),
                        Words(<<"legal", "action">>),
                        Words(<<"court", "proceedings">>)}, TRUE)
      [] src = "\\b(contract may be terminated|agreement is cancelled)\\b" ->
           Alternation({Words(<<"contract", "may", "be", "terminated">>),
                        Words(<<"agreement", "is", "cancelled">>)}, TRUE)
      [] src = "\\b(forfeiture of|penalty of|fine of)\\b" ->
           Alternation({Words(<<"forfeiture", "of">>), Words(<<"penalty", "of">>),
                        Words(<<"fine", "of">>)}, TRUE)
      [] src = "\\b(within \\d+\\s+days?|not later than|before the expiry)\\b" ->
           Alternation({<<"within", " ", "\\d+", "\\s+", "day">>,
                        <<"within", " ", "\\d+", "\\s+", "days">>,
                        Words(<<"not", "later", "than">>),
                        Words(<<"before", "the", "expiry">>)}, TRUE)
      [] src = "\\b(notice period of|during the term of|upon expiry of)\\b" ->
           Alternation({Words(<<"notice", "period", "of">>),
                        Words(<<"during", "the", "term", "of">>),
                        Words(<<"upon", "expiry", "of">>)}, TRUE)
      [] src = "\\b(immediate(?:ly)?|forthwith|without delay)\\b" ->
           Alternation({<<"immediate">>, <<"immediately">>, <<"forthwith">>,
                        Words(<<"without", "delay">>)}, TRUE)
      [] src = "\\b(this agreement is made|whereas the parties|in witness whereof)\\b" ->
           Alternation({Words(<<"this", "agreement", "is", "made">>),
                        Words(<<"whereas", "the", "parties">>),
                        Words(<<"in", "witness", "whereof">>)}, TRUE)
      [] src = "\\b(governed by|jurisdiction|arbitration)\\b" ->
           Alternation({Words(<<"governed", "by">>), <<"jurisdiction">>,
                        <<"arbitration">>}, TRUE)
      [] src = "\\b(not|never|without|except|unless|no)\\s+" ->
           Alternation({ <<w, "\\s+">> :
                           w \in {"not", "never", "without", "except", "unless", "no"} },
                       FALSE)

----------------------------------------------------------------------------
(* _compile_patterns: each list holds (pattern, weight) pairs; a compiled   *)
(* pattern object is named by its pattern text                              *)

obligation_patterns ==
    << <<"\\b(shall|must|required to|obligated to|bound to)\\b", 6500>>,
       <<"\\b(has the right to|entitled to|may demand|can require)\\b", 6000>>,
       <<"\\b(responsible for|liable for|accountable for)\\b", 6600>> >>

payment_patterns ==
    << <<"\\b(payment shall be made|pay|due on|due within)\\b", 7800>>,
       <<"\\b(interest|late payment penalty|overdue)\\b", 7500>>,
       <<"\\b(advance payment|security deposit|earnest money)\\b", 7200>> >>

consequence_patterns ==
    << <<"\\b(in case of default|breach of contract|violation of)\\b", 8000>>,
       <<"\\b(liable to pay damages|legal action|court proceedings)\\b", 7800>>,
       <<"\\b(contract may be terminated|agreement is cancelled)\\b", 7600>>,
       <<"\\b(forfeiture of|penalty of|fine of)\\b", 7400>> >>

\* a variant with the weight of "immediately" raised above the obligation weights
time_patterns_reweighted ==
    << <<"\\b(within \\d+\\s+days?|not later than|before the expiry)\\b", 5800>>,
       <<"\\b(notice period of|during the term of|upon expiry of)\\b", 5500>>,
       <<"\\b(immediate(?:ly)?|forthwith|without delay)\\b", 6800>> >>

time_patterns ==
    << <<"\\b(within \\d+\\s+days?|not later than|before the expiry)\\b", 5800>>,
       <<"\\b(notice period of|during the term of|upon expiry of)\\b", 5500>>,
       <<"\\b(immediate(?:ly)?|forthwith|without delay)\\b", 6000>> >>

\* a variant with the digits of the second weight swapped
formality_patterns_swapped ==
    << <<"\\b(this agreement is made|whereas the parties|in witness whereof)\\b", 1500>>,
       <<"\\b(governed by|jurisdiction|arbitration)\\b", 8100>> >>

formality_patterns ==
    << <<"\\b(this agreement is made|whereas the parties|in witness whereof)\\b", 1500>>,
       <<"\\b(governed by|jurisdiction|arbitration)\\b", 1800>> >>

negation_pattern == "\\b(not|never|without|except|unless|no)\\s+"

emphasis_pattern == "\\b[A-Z]{2,}\\b|\\\"[^\\\"]*\\\""

\* the compiled pattern objects, made once by _compile_patterns
Compiled ==
    LET rules == obligation_patterns \o payment_patterns \o consequence_patterns
                 \o time_patterns \o formality_patterns
        texts == { rules[i][1] : i \in DOMAIN rules } \cup {negation_pattern}
    IN  [src \in texts |-> Compile(src)]

\* the scorer's attributes after LegalPhraseScorer.__init__
CompiledLibrary ==
    [obligation_patterns |-> obligation_patterns,
     payment_patterns |-> payment_patterns,
     consequence_patterns |-> consequence_patterns,
     time_patterns |-> time_patterns,
     formality_patterns |-> formality_patterns,
     negation_pattern |-> negation_pattern,
     emphasis_pattern |-> emphasis_pattern]

----------------------------------------------------------------------------
(* score_phrase, computed as the code computes it *)

Range(f) == { f[i] : i \in DOMAIN f }

Max(S) == CHOOSE x \in S : \A y \in S : y <= x

MinOf(a, b) == IF a <= b THEN a ELSE b

MaxOf(a, b) == IF a >= b THEN a ELSE b

\* not phrase.strip()
IsBlank(text) == \A i \in 1..Len(text) : IsSpace(text[i])

\* pattern_groups, the local list of (patterns, category)
pattern_groups(lib) ==
    << <<lib.obligation_patterns, "obligation">>,
       <<lib.payment_patterns, "payment">>,
       <<lib.consequence_patterns, "consequence">>,
       <<lib.time_patterns, "time">> >>

\* pattern.search(phrase) is not None
PatternSearch(src, text) ==
    IF src = emphasis_pattern THEN EmphasisSearch(text)
    ELSE Search(Compiled[src], text)

\* the inner loop: the (score, category) pairs one group appends, in rule order
GroupMatches(patterns, cat, text) ==
    LET hit == SelectSeq(patterns, LAMBDA r : PatternSearch(r[1], text))
    IN  [i \in 1..Len(hit) |-> <<hit[i][2], cat>>]

\* [s for s, c in matched_scores if c == "formality"]
FormalityScores(ms) == { m[1] : m \in { x \in Range(ms) : x[2] = "formality" } }

\* [s for s, c in matched_scores]
AllScores(ms) == { m[1] : m \in Range(ms) }

\* a variant that takes the largest matched weight whatever its category
BaseCandidatesAll(ms, isf) == AllScores(ms)

\* the list max() is applied to when the base score is selected
BaseCandidates(ms, isf) == IF isf THEN FormalityScores(ms) ELSE AllScores(ms)

\* the number of places of text where the negation pattern matches
NegationCount(text) ==
    Cardinality({ i \in 1..Len(text) :
        /\ BoundaryBefore(text, i)
        /\ \E alt \in Compiled[negation_pattern].alts : Ends(alt, text, i) # {} })

\* a variant that applies the negation term once per occurrence
ModifierBonusPerMatch(lib, text) ==
    (0 - 1500 * NegationCount(text))
    + (IF PatternSearch(lib.emphasis_pattern, text) THEN 800 ELSE 0)

\* context_bonus after the negation and the emphasis test
ModifierBonus(lib, text) ==
    (IF PatternSearch(lib.negation_pattern, text) THEN 0 - 1500 ELSE 0)
    + (IF PatternSearch(lib.emphasis_pattern, text) THEN 800 ELSE 0)

\* {cat for _, cat in matched_scores if cat != "formality"}
UniqueCategories(ms) == { m[2] : m \in { x \in Range(ms) : x[2] # "formality" } }

\* a variant that counts matched rules instead of distinct categories
CrossBonusPerRule(ms) ==
    LET n == Cardinality({ i \in DOMAIN ms : ms[i][2] # "formality" })
        U == UniqueCategories(ms)
    IN  (IF n > 1 THEN 1000 * (n - 1) ELSE 0)
        + (IF "consequence" \in U /\ "payment" \in U THEN 500 ELSE 0)
        + (IF "obligation" \in U /\ "time" \in U THEN 300 ELSE 0)

\* what the three cross-category tests add to context_bonus
CrossBonus(ms) ==
    LET U == UniqueCategories(ms)
    IN  (IF Cardinality(U) > 1 THEN 1000 * (Cardinality(U) - 1) ELSE 0)
        + (IF "consequence" \in U /\ "payment" \in U THEN 500 ELSE 0)
        + (IF "obligation" \in U /\ "time" \in U THEN 300 ELSE 0)

\* a variant without the upper clamp
ClampNoCeiling(x) == MaxOf(0, x)

\* min(1.0, max(0.0, x))
Clamp(x) == MinOf(One, MaxOf(0, x))

\* round(x, 3) for x >= 0: to the nearest multiple of 0.001, ties to even
Round3(x) ==
    LET q == x \div 10
        r == x % 10
    IN  IF r < 5 THEN 10 * q
        ELSE IF r > 5 THEN 10 * (q + 1)
        ELSE IF q % 2 = 0 THEN 10 * q ELSE 10 * (q + 1)

\* matched_scores once both loops have run on text
MatchedScores(lib, text) ==
    LET grp == pattern_groups(lib)
    IN  GroupMatches(grp[1][1], grp[1][2], text)
        \o GroupMatches(grp[2][1], grp[2][2], text)
        \o GroupMatches(grp[3][1], grp[3][2], text)
        \o GroupMatches(grp[4][1], grp[4][2], text)
        \o GroupMatches(lib.formality_patterns, "formality", text)

\* score_phrase(text) run from entry to return with nothing else running
ScoreAlone(lib, text) ==
    IF IsBlank(text) THEN 0
    ELSE LET ms == MatchedScores(lib, text)
             isf == FormalityScores(ms) # {}
         IN  IF ms = <<>> THEN 0
             ELSE Round3(Clamp(Max(BaseCandidates(ms, isf))
                               + ModifierBonus(lib, text) + CrossBonus(ms)))

\* a variant whose thresholds are exclusive
get_risk_category_strict(s) ==
    IF s > RedThreshold THEN "Red"
    ELSE IF YellowThreshold < s /\ s <= RedThreshold THEN "Yellow"
    ELSE "Green"

get_risk_category(s) ==
    IF s >= RedThreshold THEN "Red"
    ELSE IF YellowThreshold <= s /\ s < RedThreshold THEN "Yellow"
    ELSE "Green"

----------------------------------------------------------------------------
(* Input texts *)

Vocabulary ==
    { <<"shall">>, <<"pay">>, Words(<<"In", "case", "of", "default">>),
      <<"immediately">>, Words(<<"within", "30", "days">>),
      Words(<<"without", "delay">>),
      Words(<<"governed", "by">>), Words(<<"in", "witness", "whereof">>),
      <<"not">>, <<"TIME">>, <<"\"">>, <<" ">>, <<"the">>, <<"interest">> }

Separators == { <<" ">>, <<",">>, <<"\n">> }

RECURSIVE Join(_, _)
Join(frags, sep) ==
    IF Len(frags) = 0 THEN <<>>
    ELSE IF Len(frags) = 1 THEN frags[1]
    ELSE frags[1] \o sep \o Join(Tail(frags), sep)

GeneratedTexts ==
    { Join(fs, sep) :
        fs \in UNION { [1..k -> Vocabulary] : k \in 0..MaxFrags },
        sep \in Separators }

CrossExample ==
    Words(<<"In", "case", "of", "default">>) \o <<",", " ">>
    \o Words(<<"payment", "shall", "be", "made", "immediately", "with", "interest">>)

EndToEndExample ==
    Words(<<"This", "Agreement", "is", "governed", "by", "the", "laws", "of",
            "India", "and", "any", "dispute", "shall", "be", "resolved",
            "through", "arbitration">>) \o <<".">>

PrecedenceExample ==
    Words(<<"governed", "by", "Indian", "law">>) \o <<";", " ">>
    \o Words(<<"in", "case", "of", "default">>) \o <<",", " ">>
    \o Words(<<"penalty", "of">>) \o <<" ", "$">> \o Words(<<"500", "applies">>)

NegationExample ==
    Words(<<"The", "tenant", "shall", "not", "be", "required", "to", "pay",
            "a", "security", "deposit">>)

NoNegationExample ==
    Words(<<"The", "tenant", "shall", "be", "required", "to", "pay",
            "a", "security", "deposit">>)

NoEmphasisExample == Words(<<"Payment", "is", "due", "within", "30", "days">>)

EmphasisExample ==
    NoEmphasisExample \o <<",", " ">>
    \o Words(<<"TIME", "IS", "OF", "THE", "ESSENCE">>)

\* a formality clause that also matches all four substantive groups and emphasis
FormalityMaxExample ==
    Words(<<"governed", "by">>) \o <<" ", "\"">> \o Words(<<"TIME", "IS">>)
    \o <<"\"", ",", " ">> \o CrossExample

ExampleTexts ==
    { CrossExample, EndToEndExample, PrecedenceExample, NegationExample,
      NoNegationExample, NoEmphasisExample, EmphasisExample, FormalityMaxExample }

\* texts at the edges of the patterns: empty, blank, a line break for a space,
\* words that only contain a trigger, triggers run together
EdgeTexts ==
    { <<>>, <<" ", " ", " ">>, <<"\n">>,
      <<"within", " ", "30", "\n", "days">>, <<"in", "\n", "case", " ", "of", " ", "default">>,
      <<"not", "\n", "pay">>, <<"payment">>, <<"pay", "ment">>, <<"the", " ", "payment">>,
      <<"PAY">>, <<"TIME", "pay">>, <<"\"", "pay", "\"">>,
      Words(<<"liable", "to", "pay", "damages">>),
      Words(<<"late", "payment", "penalty">>) }

Texts == GeneratedTexts \cup ExampleTexts \cup EdgeTexts

\* the clauses the concurrent threads score
ConcTexts == { CrossExample, NegationExample, <<"TIME", " ", "not", " ">>,
               Words(<<"governed", "by">>) }

\* the scores handed to get_risk_category
ScoreGrid == (0 - GridMargin)..(One + GridMargin)

----------------------------------------------------------------------------
(* The steps of one call of score_phrase by thread w, and of its caller *)

ResetLocals(w) ==
    /\ g' = [g EXCEPT ![w] = 1]
    /\ matched_scores' = [matched_scores EXCEPT ![w] = <<>>]
    /\ is_formality' = [is_formality EXCEPT ![w] = FALSE]
    /\ base_score' = [base_score EXCEPT ![w] = 0]
    /\ context_bonus' = [context_bonus EXCEPT ![w] = 0]

\* score = phrase_scorer.score_phrase(clause_text): the call
Call(w) ==
    /\ pc[w] = "idle"
    /\ \E t \in ConcTexts : phrase' = [phrase EXCEPT ![w] = t]
    /\ pc' = [pc EXCEPT ![w] = "strip"]
    /\ UNCHANGED <<library, jobstate, locals, score, category>>

\* if not phrase.strip(): return 0.0
Strip(w) ==
    /\ pc[w] = "strip"
    /\ IF IsBlank(phrase[w])
       THEN /\ score' = [score EXCEPT ![w] = 0]
            /\ pc' = [pc EXCEPT ![w] = "categorize"]
       ELSE /\ pc' = [pc EXCEPT ![w] = "groups"]
            /\ UNCHANGED score
    /\ UNCHANGED <<library, jobstate, phrase, locals, category>>

\* a variant that keeps matched_scores on the scorer object, shared by all threads
MatchGroupShared(w) ==
    /\ pc[w] = "groups"
    /\ LET grp == pattern_groups(library)[g[w]]
           new == matched_scores[w] \o GroupMatches(grp[1], grp[2], phrase[w])
       IN  matched_scores' = [v \in Threads |-> new]
    /\ IF g[w] < Len(pattern_groups(library))
       THEN /\ g' = [g EXCEPT ![w] = @ + 1]
            /\ UNCHANGED pc
       ELSE /\ pc' = [pc EXCEPT ![w] = "formality"]
            /\ UNCHANGED g
    /\ UNCHANGED <<library, jobstate, phrase, is_formality,
                   base_score, context_bonus, score, category>>

\* one iteration of: for patterns, category in pattern_groups
MatchGroup(w) ==
    /\ pc[w] = "groups"
    /\ LET grp == pattern_groups(library)[g[w]]
       IN  matched_scores' =
             [matched_scores EXCEPT
                ![w] = @ \o GroupMatches(grp[1], grp[2], phrase[w])]
    /\ IF g[w] < Len(pattern_groups(library))
       THEN /\ g' = [g EXCEPT ![w] = @ + 1]
            /\ UNCHANGED pc
       ELSE /\ pc' = [pc EXCEPT ![w] = "formality"]
            /\ UNCHANGED g
    /\ UNCHANGED <<library, jobstate, phrase, is_formality,
                   base_score, context_bonus, score, category>>

\* a variant that records the formality matches and never sets the flag
MatchFormalityNoFlag(w) ==
    /\ pc[w] = "formality"
    /\ LET hit == GroupMatches(library.formality_patterns, "formality", phrase[w])
       IN  matched_scores' = [matched_scores EXCEPT ![w] = @ \o hit]
    /\ pc' = [pc EXCEPT ![w] = "empty"]
    /\ UNCHANGED <<library, jobstate, phrase, g, is_formality,
                   base_score, context_bonus, score, category>>

\* for pattern, score in self.formality_patterns
MatchFormality(w) ==
    /\ pc[w] = "formality"
    /\ LET hit == GroupMatches(library.formality_patterns, "formality", phrase[w])
       IN  /\ matched_scores' = [matched_scores EXCEPT ![w] = @ \o hit]
           /\ is_formality' = [is_formality EXCEPT ![w] = (Len(hit) > 0)]
    /\ pc' = [pc EXCEPT ![w] = "empty"]
    /\ UNCHANGED <<library, jobstate, phrase, g, base_score,
                   context_bonus, score, category>>

\* a variant without the early return: an empty match list gives base 0.0
CheckEmptyFallThrough(w) ==
    /\ pc[w] = "empty"
    /\ IF matched_scores[w] = <<>>
       THEN /\ base_score' = [base_score EXCEPT ![w] = 0]
            /\ pc' = [pc EXCEPT ![w] = "modifiers"]
       ELSE /\ pc' = [pc EXCEPT ![w] = "base"]
            /\ UNCHANGED base_score
    /\ UNCHANGED <<library, jobstate, phrase, g, matched_scores,
                   is_formality, context_bonus, score, category>>

\* if not matched_scores: return 0.0
CheckEmpty(w) ==
    /\ pc[w] = "empty"
    /\ IF matched_scores[w] = <<>>
       THEN /\ score' = [score EXCEPT ![w] = 0]
            /\ pc' = [pc EXCEPT ![w] = "categorize"]
       ELSE /\ pc' = [pc EXCEPT ![w] = "base"]
            /\ UNCHANGED score
    /\ UNCHANGED <<library, jobstate, phrase, locals, category>>

\* base_score = max([...]); max() of an empty list raises ValueError
SelectBase(w) ==
    /\ pc[w] = "base"
    /\ LET cand == BaseCandidates(matched_scores[w], is_formality[w])
       IN  IF cand = {}
           THEN /\ pc' = [pc EXCEPT ![w] = "raised"]
                /\ UNCHANGED base_score
           ELSE /\ base_score' = [base_score EXCEPT ![w] = Max(cand)]
                /\ pc' = [pc EXCEPT ![w] = "modifiers"]
    /\ UNCHANGED <<library, jobstate, phrase, g, matched_scores,
                   is_formality, context_bonus, score, category>>

\* context_bonus = 0.0, then the negation and the emphasis test
ApplyModifiers(w) ==
    /\ pc[w] = "modifiers"
    /\ context_bonus' = [context_bonus EXCEPT ![w] = ModifierBonus(library, phrase[w])]
    /\ pc' = [pc EXCEPT ![w] = "cross"]
    /\ UNCHANGED <<library, jobstate, phrase, g, matched_scores,
                   is_formality, base_score, score, category>>

\* unique_categories and the three cross-category tests
CrossCategory(w) ==
    /\ pc[w] = "cross"
    /\ context_bonus' = [context_bonus EXCEPT ![w] = @ + CrossBonus(matched_scores[w])]
    /\ pc' = [pc EXCEPT ![w] = "clamp"]
    /\ UNCHANGED <<library, jobstate, phrase, g, matched_scores,
                   is_formality, base_score, score, category>>

\* final_score = min(1.0, max(0.0, ...)); return round(final_score, 3)
ClampRound(w) ==
    /\ pc[w] = "clamp"
    /\ score' = [score EXCEPT ![w] = Round3(Clamp(base_score[w] + context_bonus[w]))]
    /\ pc' = [pc EXCEPT ![w] = "categorize"]
    /\ UNCHANGED <<library, jobstate, phrase, locals, category>>

\* category = get_risk_category(score)
Categorize(w) ==
    /\ pc[w] = "categorize"
    /\ category' = [category EXCEPT ![w] = get_risk_category(score[w])]
    /\ pc' = [pc EXCEPT ![w] = "scored"]
    /\ UNCHANGED <<library, jobstate, phrase, locals, score>>

\* the caller's loop goes on to its next clause; the locals of the finished
\* call are gone
NextClause(w) ==
    /\ pc[w] = "scored"
    /\ pc' = [pc EXCEPT ![w] = "idle"]
    /\ phrase' = [phrase EXCEPT ![w] = <<>>]
    /\ ResetLocals(w)
    /\ score' = [score EXCEPT ![w] = 0]
    /\ category' = [category EXCEPT ![w] = "Green"]
    /\ UNCHANGED <<library, jobstate>>

----------------------------------------------------------------------------
(* Specifications *)

InitShared ==
    /\ library = CompiledLibrary
    /\ document_analysis_jobs = <<>>
    /\ issued = {}
    /\ task_pc = [d \in DocIds |-> "none"]
    /\ g = [w \in Threads |-> 1]
    /\ matched_scores = [w \in Threads |-> <<>>]
    /\ is_formality = [w \in Threads |-> FALSE]
    /\ base_score = [w \in Threads |-> 0]
    /\ context_bonus = [w \in Threads |-> 0]
    /\ category = [w \in Threads |-> "Green"]

\* one call of score_phrase, by thread 1, on any text of Texts
Init ==
    /\ InitShared
    /\ \E t \in Texts : phrase = [w \in Threads |-> IF w = 1 THEN t ELSE <<>>]
    /\ pc = [w \in Threads |-> IF w = 1 THEN "strip" ELSE "idle"]
    /\ score = [w \in Threads |-> 0]

Next ==
    \E w \in Threads :
        \/ Strip(w)
        \/ MatchGroup(w)
        \/ MatchFormality(w)
        \/ CheckEmpty(w)
        \/ SelectBase(w)
        \/ ApplyModifiers(w)
        \/ CrossCategory(w)
        \/ ClampRound(w)
        \/ Categorize(w)

Spec == Init /\ [][Next]_vars

\* the executor's threads score clauses concurrently, again and again
ConcInit ==
    /\ InitShared
    /\ phrase = [w \in Threads |-> <<>>]
    /\ pc = [w \in Threads |-> "idle"]
    /\ score = [w \in Threads |-> 0]

ConcNext ==
    \E w \in Threads :
        \/ Call(w)
        \/ Strip(w)
        \/ MatchGroup(w)
        \/ MatchFormality(w)
        \/ CheckEmpty(w)
        \/ SelectBase(w)
        \/ ApplyModifiers(w)
        \/ CrossCategory(w)
        \/ ClampRound(w)
        \/ Categorize(w)
        \/ NextClause(w)

ConcSpec == ConcInit /\ [][ConcNext]_vars

\* get_risk_category applied to every score of the grid
CatInit ==
    /\ InitShared
    /\ phrase = [w \in Threads |-> <<>>]
    /\ pc = [w \in Threads |-> IF w = 1 THEN "categorize" ELSE "idle"]
    /\ \E s \in ScoreGrid : score = [w \in Threads |-> IF w = 1 THEN s ELSE 0]

CatNext == \E w \in Threads : Categorize(w)

CatSpec == CatInit /\ [][CatNext]_vars

----------------------------------------------------------------------------
(* Vocabulary of the properties *)

\* thread w's call of score_phrase has returned
Returned(w) == pc[w] \in {"categorize", "scored"}

\* the weights of the rules of a group that match text
HitWeights(patterns, text) ==
    { r[2] : r \in { x \in Range(patterns) : PatternSearch(x[1], text) } }

SubstantiveGroups ==
    [obligation |-> obligation_patterns, payment |-> payment_patterns,
     consequence |-> consequence_patterns, time |-> time_patterns]

\* U: the substantive categories with a rule that matches text
HitCategories(text) ==
    { c \in DOMAIN SubstantiveGroups : HitWeights(SubstantiveGroups[c], text) # {} }

SubstantiveHitWeights(text) ==
    UNION { HitWeights(SubstantiveGroups[c], text) : c \in DOMAIN SubstantiveGroups }

FormalityHitWeights(text) == HitWeights(formality_patterns, text)

NoRuleMatches(text) ==
    SubstantiveHitWeights(text) = {} /\ FormalityHitWeights(text) = {}

NegationMatches(text) == PatternSearch(negation_pattern, text)

EmphasisMatches(text) == PatternSearch(emphasis_pattern, text)

\* the base score the specification prescribes
ExpectedBase(text) ==
    IF FormalityHitWeights(text) # {}
    THEN Max(FormalityHitWeights(text))
    ELSE Max(SubstantiveHitWeights(text))

\* -0.15 once for negation, +0.08 once for emphasis
ExpectedModifiers(text) ==
    (IF NegationMatches(text) THEN 0 - 1500 ELSE 0)
    + (IF EmphasisMatches(text) THEN 800 ELSE 0)

\* 0.1 x (|U| - 1), +0.05 for consequence with payment, +0.03 for obligation with time
ExpectedCross(text) ==
    LET U == HitCategories(text)
    IN  (IF Cardinality(U) > 1 THEN 1000 * (Cardinality(U) - 1) ELSE 0)
        + (IF {"consequence", "payment"} \subseteq U THEN 500 ELSE 0)
        + (IF {"obligation", "time"} \subseteq U THEN 300 ELSE 0)

----------------------------------------------------------------------------
(* C1: every call of score_phrase returns without raising, and the score   *)
(* it returns lies in the closed interval [0.0, 1.0].                      *)

C1_ScoreBounded ==
    \A w \in Threads :
        /\ pc[w] # "raised"
        /\ Returned(w) => (0 <= score[w] /\ score[w] <= 10000)

\* a call whose sum of base score and bonuses exceeds 1.0 and is clamped
C1_Witness ==
    \E w \in Threads :
        /\ pc[w] = "scored"
        /\ base_score[w] + context_bonus[w] > 10000
        /\ score[w] = 10000

----------------------------------------------------------------------------
(* C2: get_risk_category is total and partitions the scores: Red exactly   *)
(* for score >= 0.70, Yellow exactly for 0.40 <= score < 0.70, Green       *)
(* exactly for score < 0.40; 0.70 and 0.40 belong to the higher category.  *)

C2_Partition ==
    \A w \in Threads :
        pc[w] = "scored" =>
            /\ category[w] \in {"Red", "Yellow", "Green"}
            /\ category[w] = "Red" <=> score[w] >= 7000
            /\ category[w] = "Yellow" <=> (4000 <= score[w] /\ score[w] < 7000)
            /\ category[w] = "Green" <=> score[w] < 4000

\* the boundary score 0.70 has been categorized
C2_Witness ==
    \E w \in Threads : pc[w] = "scored" /\ score[w] = 7000 /\ category[w] = "Red"

----------------------------------------------------------------------------
(* C3: a text that matches no rule of the five pattern groups scores       *)
(* exactly 0.0, also when the negation or the emphasis pattern matches it. *)

C3_NoMatchZero ==
    \A w \in Threads :
        (Returned(w) /\ NoRuleMatches(phrase[w])) => score[w] = 0

\* a non-blank text without a rule match in which negation and emphasis match
C3_Witness ==
    \E w \in Threads :
        /\ pc[w] = "scored"
        /\ ~IsBlank(phrase[w])
        /\ NoRuleMatches(phrase[w])
        /\ NegationMatches(phrase[w])
        /\ EmphasisMatches(phrase[w])
        /\ score[w] = 0

----------------------------------------------------------------------------
(* C4: the base score is the largest weight among the matched Formality    *)
(* rules (0.15 or 0.18) whenever a Formality rule matches, whatever        *)
(* substantive rules match too; otherwise it is the largest weight among   *)
(* the matched substantive rules.                                          *)

C4_BaseSelection ==
    \A w \in Threads :
        pc[w] \in {"modifiers", "cross", "clamp"} =>
            /\ base_score[w] = ExpectedBase(phrase[w])
            /\ FormalityHitWeights(phrase[w]) # {} => base_score[w] \in {1500, 1800}

\* Formality and the 0.80 Consequence rule both match; the base score is 0.18
C4_Witness ==
    \E w \in Threads :
        /\ pc[w] = "clamp"
        /\ 8000 \in SubstantiveHitWeights(phrase[w])
        /\ FormalityHitWeights(phrase[w]) # {}
        /\ base_score[w] = 1800

----------------------------------------------------------------------------
(* C5: the context modifiers are additive and applied at most once each:   *)
(* 0.15 is subtracted iff the negation pattern matches somewhere, 0.08 is  *)
(* added iff the emphasis pattern matches somewhere, however often they    *)
(* match and whichever rules matched; so the score before clamping is the  *)
(* base score plus the cross-category bonus of the matched rules plus      *)
(* these two terms.                                                        *)

C5_Modifiers ==
    \A w \in Threads :
        /\ pc[w] = "cross" => context_bonus[w] = ExpectedModifiers(phrase[w])
        /\ pc[w] = "clamp" =>
             base_score[w] + context_bonus[w]
               = ExpectedBase(phrase[w]) + ExpectedCross(phrase[w])
                 + ExpectedModifiers(phrase[w])

\* negation matches at two places of a text with a rule match: 0.15 once
C5_Witness ==
    \E w \in Threads :
        /\ pc[w] = "cross"
        /\ NegationCount(phrase[w]) >= 2
        /\ context_bonus[w] = 0 - 1500

----------------------------------------------------------------------------
(* C6: with U the distinct substantive categories matched, the cross-      *)
(* category bonus is 0.1 x (|U| - 1) when |U| > 1, plus 0.05 when          *)
(* consequence and payment are in U, plus 0.03 when obligation and time    *)
(* are in U, each once per call however many rules of a category match.    *)
(* For "In case of default, payment shall be made immediately with         *)
(* interest" the bonus is 0.38 on the base 0.80 and the clamped score 1.0. *)

C6_CrossBonus ==
    \A w \in Threads :
        /\ pc[w] = "clamp" =>
             context_bonus[w] - ExpectedModifiers(phrase[w]) = ExpectedCross(phrase[w])
        /\ (pc[w] = "scored" /\ phrase[w] = CrossExample) =>
             /\ base_score[w] = 8000
             /\ context_bonus[w] = 3800
             /\ score[w] = 10000

\* the example clause has been scored: four categories, two Payment rules
C6_Witness ==
    \E w \in Threads :
        /\ pc[w] = "scored"
        /\ phrase[w] = CrossExample
        /\ HitCategories(phrase[w]) = {"obligation", "payment", "consequence", "time"}
        /\ Cardinality(HitWeights(payment_patterns, phrase[w])) = 2
        /\ score[w] = 10000

----------------------------------------------------------------------------
(* C7 as stated: for "This Agreement is governed by the laws of India and  *)
(* any dispute shall be resolved through arbitration." only Formality      *)
(* rules match, the base score is 0.18, there is no negation, emphasis or  *)
(* cross-category bonus, the score is 0.18 and the category Green.         *)

C7_OnlyFormality ==
    \A w \in Threads :
        (pc[w] = "scored" /\ phrase[w] = EndToEndExample) =>
            /\ { m[2] : m \in Range(matched_scores[w]) } = {"formality"}
            /\ base_score[w] = 1800
            /\ context_bonus[w] = 0
            /\ score[w] = 1800
            /\ category[w] = "Green"

(* C7 as amended: the clause matches the Formality rule of weight 0.18     *)
(* ("governed by", "arbitration") and also the Obligation rule of weight   *)
(* 0.65 ("shall"); the Formality match decides the base score 0.18, there  *)
(* is no negation, no emphasis and, with one substantive category, no      *)
(* cross-category bonus; the score is 0.18 and the category Green.         *)

C7_EndToEnd ==
    \A w \in Threads :
        (pc[w] = "scored" /\ phrase[w] = EndToEndExample) =>
            /\ matched_scores[w] = << <<6500, "obligation">>, <<1800, "formality">> >>
            /\ is_formality[w]
            /\ base_score[w] = 1800
            /\ ~NegationMatches(phrase[w])
            /\ ~EmphasisMatches(phrase[w])
            /\ context_bonus[w] = 0
            /\ score[w] = 1800
            /\ category[w] = "Green"

\* the end-to-end clause has been scored and categorized
C7_Witness ==
    \E w \in Threads :
        /\ pc[w] = "scored"
        /\ phrase[w] = EndToEndExample
        /\ score[w] = 1800

----------------------------------------------------------------------------
(* C8: score_phrase writes no shared state (the pattern library and the    *)
(* job table stay as they were), and under every interleaving of the       *)
(* threads' calls each call returns the value it returns when run alone,   *)
(* so two calls on the same input return the same score.                   *)

C8_PureUnderInterleaving ==
    /\ library = CompiledLibrary
    /\ document_analysis_jobs = <<>>
    /\ \A w \in Threads :
         Returned(w) => score[w] = ScoreAlone(CompiledLibrary, phrase[w])
    /\ \A v, w \in Threads :
         (Returned(v) /\ Returned(w) /\ phrase[v] = phrase[w]) => score[v] = score[w]

\* a call returned with a non-zero score while another thread is in the
\* middle of a call on a different clause
C8_Witness ==
    \E v, w \in Threads :
        /\ v # w
        /\ pc[v] = "scored"
        /\ score[v] > 0
        /\ pc[w] \in {"groups", "formality", "empty", "base", "modifiers", "cross"}
        /\ phrase[w] # phrase[v]
        /\ matched_scores[w] # <<>>

----------------------------------------------------------------------------
(* Weights of the library, as the state holds them *)

Weights(patterns) == { patterns[i][2] : i \in DOMAIN patterns }

\* the categories from the most to the least severe
SeverityOrder ==
    << "consequence_patterns", "payment_patterns", "obligation_patterns",
       "time_patterns", "formality_patterns" >>

MinOfSet(S) == CHOOSE x \in S : \A y \in S : x <= y

WeightsInUnitInterval ==
    \A i \in DOMAIN SeverityOrder :
        \A x \in Weights(library[SeverityOrder[i]]) : 0 <= x /\ x <= 10000

(* C9 as stated: the rule weights are constants in [0,1] and every rule of *)
(* a more severe category weighs more than every rule of a less severe     *)
(* one, in every state.                                                    *)

C9_EveryRuleOrdered ==
    /\ WeightsInUnitInterval
    /\ \A i, j \in DOMAIN SeverityOrder :
         i < j =>
           \A x \in Weights(library[SeverityOrder[i]]) :
             \A y \in Weights(library[SeverityOrder[j]]) : x > y

(* C9 as amended: the rule weights are constants in [0,1], never changed   *)
(* after construction; the largest weights of the categories and their     *)
(* smallest weights each follow the severity order Consequence > Payment > *)
(* Obligation > TimeSensitivity > Formality, and every substantive rule    *)
(* weighs more than every Formality rule; rule by rule, neighbouring       *)
(* substantive categories overlap.                                         *)

C9_CategoriesOrdered ==
    /\ library = CompiledLibrary
    /\ WeightsInUnitInterval
    /\ \A i, j \in DOMAIN SeverityOrder :
         i < j =>
           /\ Max(Weights(library[SeverityOrder[i]]))
                > Max(Weights(library[SeverityOrder[j]]))
           /\ MinOfSet(Weights(library[SeverityOrder[i]]))
                > MinOfSet(Weights(library[SeverityOrder[j]]))
    /\ \A i \in DOMAIN SeverityOrder :
         SeverityOrder[i] # "formality_patterns" =>
           \A x \in Weights(library[SeverityOrder[i]]) :
             \A y \in Weights(library.formality_patterns) : x > y

\* the library after a call that matched rules of it
C9_Witness ==
    \E w \in Threads :
        /\ pc[w] = "scored"
        /\ Len(matched_scores[w]) >= 2
        /\ library.consequence_patterns[4][2] < library.payment_patterns[1][2]
        /\ library.obligation_patterns[2][2] = library.time_patterns[3][2]

----------------------------------------------------------------------------
(* C10: a text that matches a Formality rule is never categorized Red: its *)
(* score is at most 0.64 (0.18 + 0.08 + 0.30 + 0.05 + 0.03), so its        *)
(* category is Green or Yellow.                                            *)

C10_FormalityNeverRed ==
    \A w \in Threads :
        FormalityHitWeights(phrase[w]) # {} =>
            /\ Returned(w) => score[w] <= 6400
            /\ pc[w] = "scored" => category[w] \in {"Green", "Yellow"}

\* a Formality clause with all four substantive categories and emphasis
C10_Witness ==
    \E w \in Threads :
        /\ pc[w] = "scored"
        /\ FormalityHitWeights(phrase[w]) # {}
        /\ Cardinality(HitCategories(phrase[w])) = 4
        /\ score[w] = 6400
        /\ category[w] = "Yellow"

----------------------------------------------------------------------------
(* upload_document and analyze_document_task.  The statements of the task  *)
(* are taken by their indentation: an outer try block without a handler    *)
(* that holds a first OCR section and then an inner try block whose        *)
(* handler records the status "failed".  Calls of the cloud services       *)
(* either succeed or raise.                                                *)

\* the request's file part, as upload_document tests it
UploadKinds == {"no file part", "empty filename", "not a pdf", "pdf"}

Job(d, status) == [documentId |-> d, status |-> status]

\* the tasks an executor thread is running
Running == { d \in DocIds : task_pc[d] \in {"vision", "request", "inner"} }

\* POST /upload: only a pdf whose upload to storage succeeds creates a job
\* with status "processing" and submits its task to the executor
upload_document(d, kind, stored) ==
    /\ d \notin issued
    /\ IF kind # "pdf"
       THEN UNCHANGED jobstate
       ELSE /\ issued' = issued \cup {d}
            /\ IF stored
               THEN /\ document_analysis_jobs' =
                         (d :> Job(d, "processing")) @@ document_analysis_jobs
                    /\ task_pc' = [task_pc EXCEPT ![d] = "queued"]
               ELSE UNCHANGED <<document_analysis_jobs, task_pc>>
    /\ UNCHANGED <<library, scorerstate>>

\* a free thread of the executor takes the submitted task
TaskStart(d) ==
    /\ task_pc[d] = "queued"
    /\ Cardinality(Running) < NumThreads
    /\ task_pc' = [task_pc EXCEPT ![d] = "vision"]
    /\ UNCHANGED <<library, document_analysis_jobs, issued, scorerstate>>

\* outer try: the vision client, the feature, the source and the input
\* configuration are built; an exception here has no handler and ends the task
TaskVisionClient(d, ok) ==
    /\ task_pc[d] = "vision"
    /\ task_pc' = [task_pc EXCEPT ![d] = IF ok THEN "request" ELSE "raised"]
    /\ UNCHANGED <<library, document_analysis_jobs, issued, scorerstate>>

\* outer try: AsyncAnnotateFileRequest(..., output_config=output_config) reads
\* the local output_config, which is assigned only further down:
\* UnboundLocalError, no handler, the task ends
TaskAsyncRequest(d) ==
    /\ task_pc[d] = "request"
    /\ task_pc' = [task_pc EXCEPT ![d] = "raised"]
    /\ UNCHANGED <<library, document_analysis_jobs, issued, scorerstate>>

\* inner try and its handler: the analysis stores the result with status
\* "completed", or a step raises and the handler stores status "failed".
\* No step of the task leads here: the statement before it always raises.
TaskAnalysis(d, ok) ==
    /\ task_pc[d] = "inner"
    /\ document_analysis_jobs' =
         [document_analysis_jobs EXCEPT
            ![d] = Job(d, IF ok THEN "completed" ELSE "failed")]
    /\ task_pc' = [task_pc EXCEPT ![d] = "returned"]
    /\ UNCHANGED <<library, issued, scorerstate>>

JobInit ==
    /\ InitShared
    /\ phrase = [w \in Threads |-> <<>>]
    /\ pc = [w \in Threads |-> "idle"]
    /\ score = [w \in Threads |-> 0]

JobNext ==
    \E d \in DocIds :
        \/ \E kind \in UploadKinds, stored \in BOOLEAN : upload_document(d, kind, stored)
        \/ TaskStart(d)
        \/ \E ok \in BOOLEAN : TaskVisionClient(d, ok)
        \/ TaskAsyncRequest(d)

\* the executor runs every task that was submitted, step by step
JobFairness ==
    \A d \in DocIds :
        /\ WF_vars(TaskStart(d))
        /\ WF_vars(\E ok \in BOOLEAN : TaskVisionClient(d, ok))
        /\ WF_vars(TaskAsyncRequest(d))

JobSpec == JobInit /\ [][JobNext]_vars /\ JobFairness

----------------------------------------------------------------------------
(* C11: every job upload_document accepted reaches the status "completed"  *)
(* or "failed": whichever step of the background task succeeds or raises,  *)
(* the job does not remain in "processing", so once the task of a job has  *)
(* ended the job's status is "completed" or "failed"; and a job that is    *)
(* "completed" or "failed" never returns to "processing".                  *)

Settled(d) ==
    /\ d \in DOMAIN document_analysis_jobs
    /\ document_analysis_jobs[d].status \in {"completed", "failed"}

TaskEnded(d) == task_pc[d] \in {"returned", "raised"}

C11_JobSettles ==
    \A d \in DocIds :
        (d \in DOMAIN document_analysis_jobs /\ TaskEnded(d)) => Settled(d)

\* the same claim as a property of behaviours
C11_JobEventuallySettles ==
    /\ \A d \in DocIds :
         (d \in DOMAIN document_analysis_jobs) ~> Settled(d)
    /\ [][\A d \in DocIds : Settled(d) => Settled(d)']_vars

====
